---- MODULE Spec2Model ----
(***************************************************************************)
(* prisma-migrator: the CLI's main(), PrismaMigrator.migrate() and the     *)
(* utilities it calls (findMigrationsDir, getRollbackFile, executeSql),    *)
(* as one sequential state machine.  File names, migration names and SQL   *)
(* text are sequences of one-character strings, so that the regular        *)
(* expression, endsWith, sort, split and trim are computed as the code     *)
(* computes them.  Diagnostics (stderr, error messages, logs) are strings. *)
(***************************************************************************)
EXTENDS Integers, Sequences, FiniteSets, TLC

VARIABLES
    fs,               \* the migrations root: entry name -> Some(listing of that directory), or None
    pc,               \* position in main() / migrate()
    confirmed,        \* cli.ts: const confirmed = await promptConfirmation(...)
    constructed,      \* whether new PrismaMigrator() has run
    migrationsDir,    \* PrismaMigrator.migrationsDir (None until initialize() succeeds)
    cmdState,         \* the external command: "notrun", "running", "ok" or "failed"
    cmdError,         \* the execError thrown by execSync: [stderr, message], or None
    path,             \* which branch of migrate() is running: "none", "command", "history", "caught", "success"
    errorOutput,      \* errorOutput / failedMigration.logs || ... / errorMessage of the branch
    failedMigration,  \* result of checkForFailedMigrations(): None or Some(record)
    migrationDirs,    \* attemptRollbackFromError: the candidates still to visit
    script,           \* the directory whose rollback script is being executed, or None
    statements,       \* executeSql: the statements not yet sent
    executed,         \* every statement sent to prisma.$executeRawUnsafe, in order, with its directory
    scriptsRun,       \* the directories whose script executeSql was called on, in order
    lookups,          \* the directories getRollbackFile was called on, in order
    rollbackResult,   \* the value attemptRollback / attemptRollbackFromError returns, or None
    result,           \* the MigrationResult migrate() returned, or None
    reported,         \* which rollback message main() printed
    disconnectCalls,  \* number of calls of migrator.disconnect()
    inCatch,          \* main() is inside its catch block
    pendingExit,      \* the code of the process.exit() that follows the pending disconnect()
    exitCode,         \* process exit code, or None while running
    prompt,           \* promptConfirmation: [randomString, answer] while main() decides on them
    historyQuery,     \* checkForFailedMigrations: "notrun", "threw", "empty" or "row"
    rootRead,         \* findRecentMigrationDirs: "notrun", "threw" or "ok"
    rollbackFile,     \* the value of the last getRollbackFile call: Some(path) or None
    rollbackSql,      \* the text readFile(rollbackFile) returned, or None
    failedInCommand   \* the migration the external command fails on, when the run fixes one;
                      \* the code is never told which one it is; None otherwise

vars == <<fs, pc, confirmed, constructed, migrationsDir, cmdState, cmdError, path,
          errorOutput, failedMigration, migrationDirs, script, statements, executed,
          scriptsRun, lookups, rollbackResult, result, reported, disconnectCalls,
          inCatch, pendingExit, exitCode, prompt, historyQuery, rootRead, rollbackFile,
          rollbackSql, failedInCommand>>

----------------------------------------------------------------------------
(* Optional values: an absent (undefined / null) field is None. *)

None == <<>>
Some(v) == <<v>>
Present(o) == o # None
Val(o) == o[1]

----------------------------------------------------------------------------
(* Bounds *)

\* number of conforming migration directories the migrations root may hold
MaxDirs == 4

----------------------------------------------------------------------------
(* Characters and strings *)

Digits == {"0", "1", "2", "3", "4", "5", "6", "7", "8", "9"}

DigitChar(i) == <<"0", "1", "2", "3", "4", "5", "6", "7", "8", "9">>[i + 1]

LetterChar(i) == <<"a", "b", "c", "d", "e", "f", "g", "h", "i">>[i]

\* UTF-16 code unit of the characters the model uses (String.prototype.sort order)
CharCode(c) ==
    CASE c = " " -> 32
      [] c = "." -> 46
      [] c \in Digits -> 48 + (CHOOSE i \in 0..9 : DigitChar(i) = c)
      [] c = ";" -> 59
      [] c = "_" -> 95
      [] c = "a" -> 97
      [] c = "b" -> 98
      [] c = "c" -> 99
      [] c = "d" -> 100
      [] c = "e" -> 101
      [] c = "f" -> 102
      [] c = "g" -> 103
      [] c = "h" -> 104
      [] c = "i" -> 105
      [] c = "k" -> 107
      [] c = "l" -> 108
      [] c = "m" -> 109
      [] c = "n" -> 110
      [] c = "o" -> 111
      [] c = "q" -> 113
      [] c = "r" -> 114
      [] c = "s" -> 115
      [] c = "t" -> 116
      [] c = "x" -> 120
      [] c = "y" -> 121

\* a < b in the order Array.prototype.sort() uses without a comparator
RECURSIVE StrLess(_, _)
StrLess(a, b) ==
    IF a = <<>> THEN b # <<>>
    ELSE IF b = <<>> THEN FALSE
    ELSE IF Head(a) = Head(b) THEN StrLess(Tail(a), Tail(b))
    ELSE CharCode(Head(a)) < CharCode(Head(b))

\* String.prototype.endsWith
EndsWith(s, suffix) ==
    /\ Len(s) >= Len(suffix)
    /\ SubSeq(s, Len(s) - Len(suffix) + 1, Len(s)) = suffix

RollbackSuffix == <<"r", "o", "l", "l", "b", "a", "c", "k", ".", "s", "q", "l">>

MigrationSql == <<"m", "i", "g", "r", "a", "t", "i", "o", "n", ".", "s", "q", "l">>

Readme == <<"r", "e", "a", "d", "m", "e">>

\* the i-th migration directory name, 2024010<i>000000_<letter>
MigName(i) ==
    <<"2", "0", "2", "4", "0", "1", "0", DigitChar(i), "0", "0", "0", "0", "0", "0", "_",
      LetterChar(i)>>

ConformingNames == {MigName(i) : i \in 1..MaxDirs}

Names == ConformingNames \cup {Readme}

----------------------------------------------------------------------------
(* utils.ts *)

\* the paths findMigrationsDir can return: resolve() maps the relative
\* fallbacks './prisma/migrations' and './migrations' to the cwd paths
ProjectPrisma == "projectRoot/prisma/migrations"
ProjectPlain == "projectRoot/migrations"
CwdPrisma == "cwd/prisma/migrations"
CwdPlain == "cwd/migrations"

Paths == {ProjectPrisma, ProjectPlain, CwdPrisma, CwdPlain}

\* possibleLocations, each as the path resolve(location) yields
possibleLocations == <<ProjectPrisma, ProjectPlain, CwdPrisma, CwdPlain, CwdPrisma, CwdPlain>>

DiscoveryError == "Could not find Prisma migrations directory"

\* findMigrationsDir() without customDir: the first location that exists, or
\* None when it throws.  existing is the set of paths fileExists() accepts.
FindMigrationsDir(existing) ==
    IF \E i \in 1..Len(possibleLocations) : possibleLocations[i] \in existing
    THEN Some(possibleLocations[CHOOSE i \in 1..Len(possibleLocations) :
                  /\ possibleLocations[i] \in existing
                  /\ \A j \in 1..(i - 1) : possibleLocations[j] \notin existing])
    ELSE None

\* fs.readdir(join(migrationsDir, name)): None when it throws
ReadDir(name) == IF name \in DOMAIN fs THEN fs[name] ELSE None

\* variant: the last matching entry of the listing is taken
FindRollbackLast(files) ==
    IF \E i \in 1..Len(files) : EndsWith(files[i], RollbackSuffix)
    THEN Some(files[CHOOSE i \in 1..Len(files) :
                  /\ EndsWith(files[i], RollbackSuffix)
                  /\ \A j \in (i + 1)..Len(files) : ~EndsWith(files[j], RollbackSuffix)])
    ELSE None

\* files.find(file => file.endsWith('rollback.sql'))
FindRollback(files) ==
    IF \E i \in 1..Len(files) : EndsWith(files[i], RollbackSuffix)
    THEN Some(files[CHOOSE i \in 1..Len(files) :
                  /\ EndsWith(files[i], RollbackSuffix)
                  /\ \A j \in 1..(i - 1) : ~EndsWith(files[j], RollbackSuffix)])
    ELSE None

\* getRollbackFile(migrationName, migrationsDir): Some(path) or None (null)
GetRollbackFile(migrationName, dir) ==
    LET files == ReadDir(migrationName)
    IN  IF ~Present(files) THEN None
        ELSE IF Present(FindRollback(Val(files)))
             THEN Some(<<dir, migrationName, Val(FindRollback(Val(files)))>>)
             ELSE None

Whitespace == {" ", "\n", "\t"}

\* sql.split(';')
RECURSIVE SplitAcc(_, _)
SplitAcc(s, cur) ==
    IF s = <<>> THEN <<cur>>
    ELSE IF Head(s) = ";" THEN <<cur>> \o SplitAcc(Tail(s), <<>>)
    ELSE SplitAcc(Tail(s), Append(cur, Head(s)))

Split(s) == SplitAcc(s, <<>>)

RECURSIVE TrimStart(_)
TrimStart(s) ==
    IF s # <<>> /\ Head(s) \in Whitespace THEN TrimStart(Tail(s)) ELSE s

RECURSIVE TrimEnd(_)
TrimEnd(s) ==
    IF s # <<>> /\ s[Len(s)] \in Whitespace THEN TrimEnd(SubSeq(s, 1, Len(s) - 1)) ELSE s

\* String.prototype.trim
Trim(s) == TrimEnd(TrimStart(s))

NonEmpty(s) == Len(s) > 0

\* variant: .filter(stmt => stmt.length > 0) is missing
SqlStatementsUnfiltered(sql) ==
    LET frags == Split(sql)
    IN  [i \in 1..Len(frags) |-> Trim(frags[i])]

\* executeSql: const statements = sql.split(';').map(trim).filter(length > 0)
SqlStatements(sql) ==
    LET frags == Split(sql)
    IN  SelectSeq([i \in 1..Len(frags) |-> Trim(frags[i])], NonEmpty)

----------------------------------------------------------------------------
(* migrator.ts: findRecentMigrationDirs *)

\* variant: name.match(/^\d+_/), any leading run of digits
MatchesLeadingDigits(name) ==
    \E k \in 1..(Len(name) - 1) :
        /\ \A i \in 1..k : name[i] \in Digits
        /\ name[k + 1] = "_"

\* name.match(/^\d{14}_/)
MatchesMigrationPattern(name) ==
    /\ Len(name) >= 15
    /\ \A i \in 1..14 : name[i] \in Digits
    /\ name[15] = "_"

RECURSIVE Insert(_, _)
Insert(x, s) ==
    IF s = <<>> THEN <<x>>
    ELSE IF StrLess(Head(s), x) THEN <<Head(s)>> \o Insert(x, Tail(s))
    ELSE <<x>> \o s

\* Array.prototype.sort() of strings
RECURSIVE SortStrings(_)
SortStrings(s) == IF s = <<>> THEN <<>> ELSE Insert(Head(s), SortStrings(Tail(s)))

Reverse(s) == [i \in 1..Len(s) |-> s[Len(s) + 1 - i]]

\* .slice(0, 3)
RecentLimit == 3

Slice(s, n) == SubSeq(s, 1, IF Len(s) < n THEN Len(s) ELSE n)

\* variant: the name filter is missing
RecentOfUnfiltered(listing) == Slice(Reverse(SortStrings(listing)), RecentLimit)

\* variant: .reverse() is missing, the oldest directories come first
RecentOfAscending(listing) ==
    Slice(SortStrings(SelectSeq(listing, MatchesMigrationPattern)), RecentLimit)

\* the value findRecentMigrationDirs() returns when readdir yields listing
RecentOf(listing) ==
    Slice(Reverse(SortStrings(SelectSeq(listing, MatchesMigrationPattern))), RecentLimit)

----------------------------------------------------------------------------
(* The environment: what the prompt, the file system, the external command *)
(* and the database can answer.                                            *)

\* generateRandomString(): six lower-case letters
RandomStrings == {<<"a", "b", "c", "x", "y", "q">>, <<"q", "y", "x", "c", "b", "a">>}

\* what the user may type at the prompt
Answers ==
    RandomStrings \cup {<<" ">> \o r \o <<"\n">> : r \in RandomStrings}
        \cup {SubSeq(r, 1, 3) : r \in RandomStrings} \cup {<<>>}

PrefixedRollbackSql == <<"0", "0", "1", ".">> \o RollbackSuffix

\* what a conforming migration directory may hold
DirKinds == {None, Some(<<MigrationSql>>), Some(<<MigrationSql, PrefixedRollbackSql>>)}

\* what the non-conforming entry may be: missing, or a directory with a rollback.sql
ReadmeKinds == {None, Some(<<RollbackSuffix>>)}

FileSystems ==
    {f \in [Names -> DirKinds \cup ReadmeKinds] :
        /\ f[Readme] \in ReadmeKinds
        /\ \A n \in ConformingNames : f[n] \in DirKinds}

\* the entries of the migrations root
RootEntries == {n \in DOMAIN fs : Present(fs[n])}

RECURSIVE Enumerate(_)
Enumerate(S) ==
    IF S = {} THEN <<>>
    ELSE LET x == CHOOSE y \in S : TRUE IN <<x>> \o Enumerate(S \ {x})

Rotate(s) == IF s = <<>> THEN s ELSE Append(Tail(s), Head(s))

\* orders in which readdir may list the root (the order is the file system's)
Listings(S) == {Enumerate(S), Reverse(Enumerate(S)), Rotate(Enumerate(S))}

\* which of the paths exist: none; only the last one tried; the second and
\* the third
Layouts == {{}, {CwdPlain}, {ProjectPlain, CwdPrisma}}

\* the errors execSync may throw: non-zero exit with and without stderr
\* output, and a spawn failure, which carries no stderr
ExecErrors ==
    {[stderr |-> Some("P3009"), message |-> "Command failed: npx prisma migrate deploy P3009"],
     [stderr |-> Some(""), message |-> "Command failed: npx prisma migrate deploy"],
     [stderr |-> None, message |-> "spawnSync /bin/sh ENOENT"]}

\* FailedMigration.logs: string | null
LogValues == {None, Some(""), Some("constraint violation")}

\* migration names the unfinished history row may carry: the oldest migration
\* and a name that does not follow the naming convention
RecordedNames == {MigName(1), Readme}

\* rows the history query may return (LIMIT 1)
HistoryRows == {[migration_name |-> n, logs |-> l] : n \in RecordedNames, l \in LogValues}

\* rollback scripts: three statements; empty fragments around one statement; empty file
Scripts ==
    {<<"x", ";", "y", ";", "d", ";">>,
     <<" ", " ", " ", ";", " ", " ", ";", " ", "x", ";">>,
     <<>>}

ReadErrors == {"EACCES: permission denied"}

DbErrors == {"syntax error", "relation does not exist"}

----------------------------------------------------------------------------
(* Initial state: before main() runs *)

Init ==
    /\ fs \in FileSystems
    /\ pc = "prompt"
    /\ confirmed = FALSE
    /\ constructed = FALSE
    /\ migrationsDir = None
    /\ cmdState = "notrun"
    /\ cmdError = None
    /\ path = "none"
    /\ errorOutput = None
    /\ failedMigration = None
    /\ migrationDirs = <<>>
    /\ script = None
    /\ statements = <<>>
    /\ executed = <<>>
    /\ scriptsRun = <<>>
    /\ lookups = <<>>
    /\ rollbackResult = None
    /\ result = None
    /\ reported = "none"
    /\ disconnectCalls = 0
    /\ inCatch = FALSE
    /\ pendingExit = 0
    /\ exitCode = None
    /\ prompt = None
    /\ historyQuery = "notrun"
    /\ rootRead = "notrun"
    /\ rollbackFile = None
    /\ rollbackSql = None
    /\ failedInCommand = None

----------------------------------------------------------------------------
(* cli.ts: main(), up to the call of migrate() *)

\* variant: the answer is compared with a prefix test
ConfirmsByPrefix(answer, randomString) ==
    SubSeq(randomString, 1, Len(Trim(answer))) = Trim(answer)

\* answer.trim() === randomString
Confirms(answer, randomString) == Trim(answer) = randomString

\* promptConfirmation: resolve(answer.trim() === randomString)
PromptConfirmation ==
    /\ pc = "prompt"
    /\ \E randomString \in RandomStrings, answer \in Answers :
          /\ prompt' = Some([randomString |-> randomString, answer |-> answer])
          /\ confirmed' = Confirms(answer, randomString)
    /\ pc' = "confirm"
    /\ UNCHANGED <<fs, constructed, migrationsDir, cmdState, cmdError, path, errorOutput,
                   failedMigration, migrationDirs, script, statements, executed, scriptsRun,
                   lookups, rollbackResult, result, reported, disconnectCalls, inCatch,
                   pendingExit, exitCode>>
    /\ UNCHANGED <<historyQuery, rootRead, rollbackFile, rollbackSql,
                   failedInCommand>>

\* if (!confirmed) { ...; process.exit(1); }
Cancel ==
    /\ pc = "confirm"
    /\ ~confirmed
    /\ exitCode' = Some(1)
    /\ pc' = "exited"
    /\ UNCHANGED <<fs, confirmed, constructed, migrationsDir, cmdState, cmdError, path,
                   errorOutput, failedMigration, migrationDirs, script, statements, executed,
                   scriptsRun, lookups, rollbackResult, result, reported, disconnectCalls,
                   inCatch, pendingExit>>
    /\ UNCHANGED <<prompt, historyQuery, rootRead, rollbackFile, rollbackSql,
                   failedInCommand>>

\* variant: the exit after a refused confirmation is missing
MayProceedAlways(ok) == TRUE

\* main() goes on past if (!confirmed) { ...; process.exit(1); }
MayProceed(ok) == ok

\* const migrator = new PrismaMigrator(...); the try block calls migrate().
\* What was typed at the prompt is out of scope from here on.
Construct ==
    /\ pc = "confirm"
    /\ MayProceed(confirmed)
    /\ constructed' = TRUE
    /\ prompt' = None
    /\ pc' = "initialize"
    /\ UNCHANGED <<fs, confirmed, migrationsDir, cmdState, cmdError, path, errorOutput,
                   failedMigration, migrationDirs, script, statements, executed, scriptsRun,
                   lookups, rollbackResult, result, reported, disconnectCalls, inCatch,
                   pendingExit, exitCode>>
    /\ UNCHANGED <<historyQuery, rootRead, rollbackFile, rollbackSql,
                   failedInCommand>>

----------------------------------------------------------------------------
(* migrator.ts: migrate() *)

\* variant: initialize() is awaited outside the try block, so its throw
\* leaves migrate() and lands in main()'s catch block
AfterDiscoveryThrowEscapes == "catch"

\* where a throw of initialize() goes: the outer catch of migrate(), which
\* calls attemptRollbackFromError
AfterDiscoveryThrow == "scan"

\* await this.initialize(): a throw of findMigrationsDir lands in the outer
\* catch of migrate(), which takes its message as the error
Initialize ==
    /\ pc = "initialize"
    /\ \E existing \in Layouts :
          LET found == FindMigrationsDir(existing)
          IN  IF Present(found)
              THEN /\ migrationsDir' = found
                   /\ pc' = "exec"
                   /\ UNCHANGED <<path, errorOutput>>
              ELSE /\ migrationsDir' = None
                   /\ path' = "caught"
                   /\ errorOutput' = Some(DiscoveryError)
                   /\ pc' = AfterDiscoveryThrow
    /\ UNCHANGED <<fs, confirmed, constructed, cmdState, cmdError, failedMigration,
                   migrationDirs, script, statements, executed, scriptsRun, lookups,
                   rollbackResult, result, reported, disconnectCalls, inCatch, pendingExit,
                   exitCode>>
    /\ UNCHANGED <<prompt, historyQuery, rootRead, rollbackFile, rollbackSql,
                   failedInCommand>>

\* execSync(migrateCommand, ...) is entered
StartCommand ==
    /\ pc = "exec"
    /\ cmdState' = "running"
    /\ pc' = "execwait"
    /\ UNCHANGED <<fs, confirmed, constructed, migrationsDir, cmdError, path, errorOutput,
                   failedMigration, migrationDirs, script, statements, executed, scriptsRun,
                   lookups, rollbackResult, result, reported, disconnectCalls, inCatch,
                   pendingExit, exitCode>>
    /\ UNCHANGED <<prompt, historyQuery, rootRead, rollbackFile, rollbackSql,
                   failedInCommand>>

\* variant: tests stderr for presence, not for truthiness
ErrorOutputStderrIfPresent(execError) ==
    IF Present(execError.stderr) THEN Val(execError.stderr) ELSE execError.message

\* const errorOutput = execError.stderr ? execError.stderr.toString() : execError.message
ErrorOutputOf(execError) ==
    IF Present(execError.stderr) /\ Val(execError.stderr) # ""
    THEN Val(execError.stderr)
    ELSE execError.message

\* execSync returns the command's stdout
CommandSucceeds ==
    /\ pc = "execwait"
    /\ cmdState' = "ok"
    /\ pc' = "history"
    /\ UNCHANGED <<fs, confirmed, constructed, migrationsDir, cmdError, path, errorOutput,
                   failedMigration, migrationDirs, script, statements, executed, scriptsRun,
                   lookups, rollbackResult, result, reported, disconnectCalls, inCatch,
                   pendingExit, exitCode>>
    /\ UNCHANGED <<prompt, historyQuery, rootRead, rollbackFile, rollbackSql,
                   failedInCommand>>

\* execSync throws: catch (execError) computes errorOutput and calls
\* attemptRollbackFromError
CommandFails ==
    /\ pc = "execwait"
    /\ \E execError \in ExecErrors :
          /\ cmdError' = Some(execError)
          /\ errorOutput' = Some(ErrorOutputOf(execError))
    /\ cmdState' = "failed"
    /\ path' = "command"
    /\ pc' = "scan"
    /\ UNCHANGED <<fs, confirmed, constructed, migrationsDir, failedMigration, migrationDirs,
                   script, statements, executed, scriptsRun, lookups, rollbackResult, result,
                   reported, disconnectCalls, inCatch, pendingExit, exitCode>>
    /\ UNCHANGED <<prompt, historyQuery, rootRead, rollbackFile, rollbackSql,
                   failedInCommand>>

\* variant: the success result also carries rolledBack: false
SuccessResultWithRolledBack ==
    [success |-> TRUE, error |-> None, rolledBack |-> Some(FALSE), rollbackError |-> None]

\* return { success: true }
SuccessResult ==
    [success |-> TRUE, error |-> None, rolledBack |-> None, rollbackError |-> None]

\* a rejection of prisma.$queryRaw
QueryError == "relation \"_prisma_migrations\" does not exist"

\* variant: checkForFailedMigrations has no try/catch, so a rejected query
\* reaches the outer catch of migrate()
QueryThrowEscapes == FALSE

\* checkForFailedMigrations catches a rejected query and returns null
QueryThrowCaught == TRUE

\* checkForFailedMigrations(): the first row of the query, or null when there
\* is none or the query throws; then if (failedMigration) ... else return
CheckForFailedMigrations ==
    /\ pc = "history"
    /\ \E rows \in {<<>>} \cup {<<r>> : r \in HistoryRows}, queryThrows \in BOOLEAN :
          LET found == IF ~queryThrows /\ Len(rows) > 0 THEN Some(rows[1]) ELSE None
          IN  /\ historyQuery' = IF queryThrows THEN "threw"
                                 ELSE IF Len(rows) > 0 THEN "row" ELSE "empty"
              /\ IF queryThrows /\ ~QueryThrowCaught
                 THEN /\ failedMigration' = None
                      /\ path' = "caught"
                      /\ errorOutput' = Some(QueryError)
                      /\ pc' = "scan"
                      /\ UNCHANGED result
                 ELSE /\ failedMigration' = found
                      /\ UNCHANGED errorOutput
                      /\ IF Present(found)
                         THEN /\ path' = "history"
                              /\ pc' = "target"
                              /\ UNCHANGED result
                         ELSE /\ path' = "success"
                              /\ result' = Some(SuccessResult)
                              /\ pc' = "returned"
    /\ UNCHANGED <<fs, confirmed, constructed, migrationsDir, cmdState, cmdError,
                   migrationDirs, script, statements, executed, scriptsRun, lookups,
                   rollbackResult, reported, disconnectCalls, inCatch, pendingExit, exitCode>>
    /\ UNCHANGED <<prompt, rootRead, rollbackFile, rollbackSql,
                   failedInCommand>>

----------------------------------------------------------------------------
(* migrator.ts: attemptRollback, attemptRollbackFromError, executeSql *)

\* return { success: false, error: 'No rollback.sql file found' }
RollbackMiss == [success |-> FALSE, error |-> Some("No rollback.sql file found")]

\* return { success: false, error: 'No rollback files found' }
ScanMiss == [success |-> FALSE, error |-> Some("No rollback files found")]

\* return { success: true }
RollbackSuccess == [success |-> TRUE, error |-> None]

\* catch (error) { ...; return { success: false, error: errorMessage } }
RollbackFailure(errorMessage) == [success |-> FALSE, error |-> Some(errorMessage)]

\* variant: attemptRollbackFromError catches inside its loop and goes on to
\* the next candidate
AfterRollbackThrowContinue(branch) == IF branch = "history" THEN "return" ELSE "scanloop"

\* where control goes when readFile or a statement throws: both rollback
\* functions catch around their whole body and return
AfterRollbackThrow(branch) == "return"

\* const rollbackSql = await readFile(rollbackFile);
\* await executeSql(rollbackSql, this.prisma, this.logger)  (up to its loop)
OpenScript(name) ==
    \/ \E e \in ReadErrors :
          /\ rollbackResult' = Some(RollbackFailure(e))
          /\ pc' = AfterRollbackThrow(path)
          /\ UNCHANGED <<script, statements, scriptsRun, rollbackSql>>
    \/ \E sql \in Scripts :
          /\ rollbackSql' = Some(sql)
          /\ script' = Some(name)
          /\ statements' = SqlStatements(sql)
          /\ scriptsRun' = Append(scriptsRun, name)
          /\ pc' = "execsql"
          /\ UNCHANGED rollbackResult

\* variant: a miss in the failed migration's directory falls back to the
\* scan of the recent migrations
AfterTargetMissScans == "scan"

\* where attemptRollback goes when the directory has no rollback file: it returns
AfterTargetMiss == "return"

\* attemptRollback(failedMigration.migration_name), up to executeSql's loop
AttemptRollback ==
    /\ pc = "target"
    /\ LET migrationName == Val(failedMigration).migration_name
           found == GetRollbackFile(migrationName, Val(migrationsDir))
       IN  /\ lookups' = Append(lookups, migrationName)
           /\ rollbackFile' = found
           /\ IF Present(found)
              THEN OpenScript(migrationName)
              ELSE /\ rollbackResult' = Some(RollbackMiss)
                   /\ pc' = AfterTargetMiss
                   /\ UNCHANGED <<script, statements, scriptsRun, rollbackSql>>
    /\ UNCHANGED <<fs, confirmed, constructed, migrationsDir, cmdState, cmdError, path,
                   errorOutput, failedMigration, migrationDirs, executed, result, reported,
                   disconnectCalls, inCatch, pendingExit, exitCode>>
    /\ UNCHANGED <<prompt, historyQuery, rootRead, failedInCommand>>

\* variant: only the directory of the migration that failed is a candidate
CandidatesForFailedOnly(dirs, failed) ==
    IF Present(failed) THEN SelectSeq(dirs, LAMBDA d : d = Val(failed)) ELSE dirs

\* attemptRollbackFromError(errorOutput) walks every directory that
\* findRecentMigrationDirs() returned: nothing tells it which migration failed
CandidatesFor(dirs, failed) == dirs

\* variant: fs.readdir(this.migrationsDir || '.') reads a default directory
ReaddirRejectsUnlessDefaulted(dir, readdirThrows) == readdirThrows

\* fs.readdir(this.migrationsDir) rejects for an undefined path, and when
\* the file system refuses
ReaddirRejects(dir, readdirThrows) == ~Present(dir) \/ readdirThrows

\* path.join(migrationsDir, migrationName) throws for an undefined migrationsDir
JoinError == "The \"path\" argument must be of type string. Received undefined"

\* findRecentMigrationDirs(): [] when readdir throws, as it does for the
\* undefined migrationsDir that a failed initialize() leaves
FindRecentMigrationDirs ==
    /\ pc = "scan"
    /\ \E readdirThrows \in BOOLEAN, listing \in Listings(RootEntries) :
          /\ migrationDirs' = IF ReaddirRejects(migrationsDir, readdirThrows) THEN <<>>
                              ELSE CandidatesFor(RecentOf(listing), failedInCommand)
          /\ rootRead' = IF ReaddirRejects(migrationsDir, readdirThrows) THEN "threw"
                         ELSE "ok"
    /\ pc' = "scanloop"
    /\ UNCHANGED <<fs, confirmed, constructed, migrationsDir, cmdState, cmdError, path,
                   errorOutput, failedMigration, script, statements, executed, scriptsRun,
                   lookups, rollbackResult, result, reported, disconnectCalls, inCatch,
                   pendingExit, exitCode>>
    /\ UNCHANGED <<prompt, historyQuery, rollbackFile, rollbackSql,
                   failedInCommand>>

\* one iteration of for (const migrationName of migrationDirs), or the code
\* after the loop
ScanStep ==
    /\ pc = "scanloop"
    /\ IF migrationDirs = <<>>
       THEN /\ rollbackResult' = Some(ScanMiss)
            /\ pc' = "return"
            /\ UNCHANGED <<migrationDirs, script, statements, scriptsRun, lookups,
                           rollbackFile, rollbackSql>>
       ELSE LET migrationName == Head(migrationDirs)
                found == GetRollbackFile(migrationName, Val(migrationsDir))
            IN  /\ migrationDirs' = Tail(migrationDirs)
                /\ lookups' = Append(lookups, migrationName)
                /\ IF ~Present(migrationsDir)
                   THEN /\ rollbackResult' = Some(RollbackFailure(JoinError))
                        /\ pc' = AfterRollbackThrow(path)
                        /\ UNCHANGED <<script, statements, scriptsRun, rollbackFile,
                                       rollbackSql>>
                   ELSE /\ rollbackFile' = found
                        /\ IF Present(found)
                           THEN OpenScript(migrationName)
                           ELSE /\ pc' = "scanloop"
                                /\ UNCHANGED <<script, statements, scriptsRun,
                                               rollbackResult, rollbackSql>>
    /\ UNCHANGED <<fs, confirmed, constructed, migrationsDir, cmdState, cmdError, path,
                   errorOutput, failedMigration, executed, result, reported, disconnectCalls,
                   inCatch, pendingExit, exitCode>>
    /\ UNCHANGED <<prompt, historyQuery, rootRead, failedInCommand>>

\* variant: the statements run inside a transaction that a failure undoes
AppliedOnFailureInTransaction(done) == <<>>

\* executeSql opens no transaction: the statements that ran before the
\* failing one stay applied
AppliedOnFailure(done) == done

\* executeSql: await prisma.$executeRawUnsafe(statement), which returns or throws
ExecuteStatement ==
    /\ pc = "execsql"
    /\ statements # <<>>
    /\ \/ /\ executed' = Append(executed, [dir |-> Val(script), statement |-> Head(statements),
                                            ok |-> TRUE, error |-> None])
          /\ statements' = Tail(statements)
          /\ UNCHANGED <<pc, rollbackResult>>
       \/ \E e \in DbErrors :
          /\ executed' = Append(AppliedOnFailure(executed),
                                [dir |-> Val(script), statement |-> Head(statements),
                                 ok |-> FALSE, error |-> Some(e)])
          /\ rollbackResult' = Some(RollbackFailure(e))
          /\ pc' = AfterRollbackThrow(path)
          /\ UNCHANGED statements
    /\ UNCHANGED <<fs, confirmed, constructed, migrationsDir, cmdState, cmdError, path,
                   errorOutput, failedMigration, migrationDirs, script, scriptsRun, lookups,
                   result, reported, disconnectCalls, inCatch, pendingExit, exitCode>>
    /\ UNCHANGED <<prompt, historyQuery, rootRead, rollbackFile, rollbackSql,
                   failedInCommand>>

\* executeSql returns after its last statement; the caller returns { success: true }
ExecuteSqlDone ==
    /\ pc = "execsql"
    /\ statements = <<>>
    /\ rollbackResult' = Some(RollbackSuccess)
    /\ pc' = "return"
    /\ UNCHANGED <<fs, confirmed, constructed, migrationsDir, cmdState, cmdError, path,
                   errorOutput, failedMigration, migrationDirs, script, statements, executed,
                   scriptsRun, lookups, result, reported, disconnectCalls, inCatch,
                   pendingExit, exitCode>>
    /\ UNCHANGED <<prompt, historyQuery, rootRead, rollbackFile, rollbackSql,
                   failedInCommand>>

\* variant: failedMigration.logs ?? 'Migration failed'
LogsOrDefaultNullish(record) ==
    IF Present(record.logs) THEN Val(record.logs) ELSE "Migration failed"

\* failedMigration.logs || 'Migration failed'
LogsOrDefault(record) ==
    IF Present(record.logs) /\ Val(record.logs) # "" THEN Val(record.logs)
    ELSE "Migration failed"

\* the error field of the failing branch that is running
MigrateError ==
    IF path = "history" THEN LogsOrDefault(Val(failedMigration)) ELSE Val(errorOutput)

\* variant: rolledBack: !!rollbackResult
FailureResultTruthyObject(error, rollback) ==
    [success |-> FALSE, error |-> Some(error), rolledBack |-> Some(TRUE),
     rollbackError |-> rollback.error]

\* variant: the error field is left out
FailureResultNoError(error, rollback) ==
    [success |-> FALSE, error |-> None, rolledBack |-> Some(rollback.success),
     rollbackError |-> rollback.error]

\* variant: error: rollbackResult.error || error
FailureResultOverwritten(error, rollback) ==
    [success |-> FALSE,
     error |-> IF Present(rollback.error) /\ Val(rollback.error) # "" THEN rollback.error
               ELSE Some(error),
     rolledBack |-> Some(rollback.success), rollbackError |-> rollback.error]

\* variant: success follows the outcome of the rollback
FailureResultSuccessAfterRollback(error, rollback) ==
    [success |-> rollback.success, error |-> Some(error),
     rolledBack |-> Some(rollback.success), rollbackError |-> rollback.error]

\* return { success: false, error: ..., rolledBack: rollbackResult.success,
\*          rollbackError: rollbackResult.error }
FailureResult(error, rollback) ==
    [success |-> FALSE, error |-> Some(error), rolledBack |-> Some(rollback.success),
     rollbackError |-> rollback.error]

\* the return statement of the three failing branches of migrate()
ReturnFailure ==
    /\ pc = "return"
    /\ result' = Some(FailureResult(MigrateError, Val(rollbackResult)))
    /\ pc' = "returned"
    /\ UNCHANGED <<fs, confirmed, constructed, migrationsDir, cmdState, cmdError, path,
                   errorOutput, failedMigration, migrationDirs, script, statements, executed,
                   scriptsRun, lookups, rollbackResult, reported, disconnectCalls, inCatch,
                   pendingExit, exitCode>>
    /\ UNCHANGED <<prompt, historyQuery, rootRead, rollbackFile, rollbackSql,
                   failedInCommand>>

----------------------------------------------------------------------------
(* cli.ts: main(), after migrate() has returned *)

\* if (result.rolledBack) ... else if (result.rollbackError) ... else ...
ReportOf(r) ==
    IF r.rolledBack = Some(TRUE) THEN "rollback succeeded"
    ELSE IF Present(r.rollbackError) /\ Val(r.rollbackError) # "" THEN "rollback failed"
    ELSE "no rollback file"

\* if (result.success) { ... } else { ... }, up to the call of disconnect()
HandleResult ==
    /\ pc = "returned"
    /\ IF Val(result).success
       THEN /\ pendingExit' = 0
            /\ UNCHANGED reported
       ELSE /\ pendingExit' = 1
            /\ reported' = ReportOf(Val(result))
    /\ pc' = "disconnect"
    /\ UNCHANGED <<fs, confirmed, constructed, migrationsDir, cmdState, cmdError, path,
                   errorOutput, failedMigration, migrationDirs, script, statements, executed,
                   scriptsRun, lookups, rollbackResult, result, disconnectCalls, inCatch,
                   exitCode>>
    /\ UNCHANGED <<prompt, historyQuery, rootRead, rollbackFile, rollbackSql,
                   failedInCommand>>

\* where a throw of disconnect() goes: into main()'s catch block from the
\* try block, out of main() from the catch block
AfterDisconnectThrow(catching) == IF catching THEN "rejected" ELSE "catch"

\* await migrator.disconnect(); process.exit(...): prisma.$disconnect()
\* resolves or rejects
Disconnect ==
    /\ pc = "disconnect"
    /\ disconnectCalls' = disconnectCalls + 1
    /\ \/ /\ exitCode' = Some(pendingExit)
          /\ pc' = "exited"
       \/ /\ pc' = AfterDisconnectThrow(inCatch)
          /\ UNCHANGED exitCode
    /\ UNCHANGED <<fs, confirmed, constructed, migrationsDir, cmdState, cmdError, path,
                   errorOutput, failedMigration, migrationDirs, script, statements, executed,
                   scriptsRun, lookups, rollbackResult, result, reported, inCatch,
                   pendingExit>>
    /\ UNCHANGED <<prompt, historyQuery, rootRead, rollbackFile, rollbackSql,
                   failedInCommand>>

\* catch (error) { ...; await migrator.disconnect(); process.exit(1); }
Catch ==
    /\ pc = "catch"
    /\ inCatch' = TRUE
    /\ pendingExit' = 1
    /\ pc' = "disconnect"
    /\ UNCHANGED <<fs, confirmed, constructed, migrationsDir, cmdState, cmdError, path,
                   errorOutput, failedMigration, migrationDirs, script, statements, executed,
                   scriptsRun, lookups, rollbackResult, result, reported, disconnectCalls,
                   exitCode>>
    /\ UNCHANGED <<prompt, historyQuery, rootRead, rollbackFile, rollbackSql,
                   failedInCommand>>

\* main() rejects and nothing handles it: the process ends with code 1
UnhandledRejection ==
    /\ pc = "rejected"
    /\ exitCode' = Some(1)
    /\ pc' = "exited"
    /\ UNCHANGED <<fs, confirmed, constructed, migrationsDir, cmdState, cmdError, path,
                   errorOutput, failedMigration, migrationDirs, script, statements, executed,
                   scriptsRun, lookups, rollbackResult, result, reported, disconnectCalls,
                   inCatch, pendingExit>>
    /\ UNCHANGED <<prompt, historyQuery, rootRead, rollbackFile, rollbackSql,
                   failedInCommand>>

----------------------------------------------------------------------------

Next ==
    \/ PromptConfirmation
    \/ Cancel
    \/ Construct
    \/ Initialize
    \/ StartCommand
    \/ CommandSucceeds
    \/ CommandFails
    \/ CheckForFailedMigrations
    \/ AttemptRollback
    \/ FindRecentMigrationDirs
    \/ ScanStep
    \/ ExecuteStatement
    \/ ExecuteSqlDone
    \/ ReturnFailure
    \/ HandleResult
    \/ Disconnect
    \/ Catch
    \/ UnhandledRejection

Spec == Init /\ [][Next]_vars

----------------------------------------------------------------------------
(* Properties of the result of migrate() *)

Returned == Present(result)

\* the fields of the returned MigrationResult
R == Val(result)

\* the error execSync threw
ExecError == Val(cmdError)

\* a statement of a rollback script was sent and failed
StatementFailed == \E i \in 1..Len(executed) : ~executed[i].ok

\* C1 as stated: in every result of migrate(), rolledBack and rollbackError
\* are never both present.
C1_NeverBothPresent ==
    Returned => ~(Present(R.rolledBack) /\ Present(R.rollbackError))

\* C1 as amended: in every result of migrate(), rolledBack = true and a
\* present rollbackError never occur together, and rollbackError is present
\* only in a result whose rolledBack is false.
C1_RolledBackExcludesRollbackError ==
    Returned =>
        /\ ~(R.rolledBack = Some(TRUE) /\ Present(R.rollbackError))
        /\ (Present(R.rollbackError) => R.rolledBack = Some(FALSE))

\* C1 witness: migrate() has returned after a rollback script ran to its end
C1_Witness ==
    /\ Returned
    /\ scriptsRun # <<>>
    /\ ~StatementFailed
    /\ R.rolledBack = Some(TRUE)

\* C2: when the command returned without error and the history check found
\* no unfinished row, migrate() returns exactly {success: true}: error,
\* rolledBack and rollbackError are absent.
C2_SuccessIsExactlySuccess ==
    (Returned /\ cmdState = "ok" /\ ~Present(failedMigration)) =>
        /\ R.success = TRUE
        /\ ~Present(R.error)
        /\ ~Present(R.rolledBack)
        /\ ~Present(R.rollbackError)

\* C2 witness: migrate() has returned on the success path
C2_Witness ==
    /\ Returned
    /\ cmdState = "ok"
    /\ ~Present(failedMigration)
    /\ path = "success"

\* C3: when the command fails, the result has success = false and a
\* non-empty error: the command's stderr, or the thrown error's message
\* when stderr is empty or missing.
C3_CommandFailureError ==
    (Returned /\ cmdState = "failed") =>
        /\ R.success = FALSE
        /\ Present(R.error)
        /\ Val(R.error) # ""
        /\ IF ExecError.stderr \in {None, Some("")}
           THEN Val(R.error) = ExecError.message
           ELSE R.error = ExecError.stderr

\* C3 witness: migrate() has returned after a command failure with empty stderr
C3_Witness ==
    /\ Returned
    /\ cmdState = "failed"
    /\ ExecError.stderr = Some("")

\* C4: every result has exactly one of success = true and error present,
\* and carries neither rolledBack nor rollbackError when success = true.
C4_SuccessXorError ==
    Returned =>
        /\ (R.success = TRUE) # Present(R.error)
        /\ (R.success = TRUE => ~Present(R.rolledBack) /\ ~Present(R.rollbackError))

\* C4 witness: migrate() has returned from its outer catch block
C4_Witness ==
    /\ Returned
    /\ path = "caught"
    /\ Present(R.error)

\* the directory called name holds no file whose name ends in rollback.sql
NoRollbackFileIn(name) ==
    \/ ~Present(fs[name])
    \/ \A j \in 1..Len(Val(fs[name])) : ~EndsWith(Val(fs[name])[j], RollbackSuffix)

\* a rollback was attempted and every directory it looked into had no rollback file
LookupMissed ==
    /\ lookups # <<>>
    /\ \A i \in 1..Len(lookups) : NoRollbackFileIn(lookups[i])

\* C5 as stated: when the rollback lookup misses, the result has
\* rolledBack = false and rollbackError absent.
C5_LookupMissHasNoRollbackError ==
    (Returned /\ LookupMissed) =>
        /\ R.rolledBack = Some(FALSE)
        /\ ~Present(R.rollbackError)

\* C6: when the command fails with stderr E and no entry of the migrations
\* root matches the naming convention, migrate() returns {success: false,
\* error: E, rolledBack: false, rollbackError: 'No rollback files found'}
\* and no SQL statement is executed.
C6_NoCandidatesSentinel ==
    (/\ Returned
     /\ cmdState = "failed"
     /\ ExecError.stderr \notin {None, Some("")}
     /\ RootEntries \cap ConformingNames = {}) =>
        /\ R = [success |-> FALSE, error |-> ExecError.stderr, rolledBack |-> Some(FALSE),
                rollbackError |-> Some("No rollback files found")]
        /\ executed = <<>>
        /\ scriptsRun = <<>>

\* C6 witness: the command failed with stderr P3009 and the root holds only
\* the non-conforming entry, which has a rollback.sql
C6_Witness ==
    /\ Returned
    /\ cmdState = "failed"
    /\ ExecError.stderr = Some("P3009")
    /\ Present(migrationsDir)
    /\ RootEntries = {Readme}

\* C7: when the command exits zero, the history check returns an unfinished
\* record with migration_name M and logs L, and M's rollback script runs
\* without error, migrate() returns {success: false, error: L, rolledBack:
\* true} without rollbackError; absent or empty logs give 'Migration failed'.
C7_HistoryRollbackSuccess ==
    (/\ Returned
     /\ cmdState = "ok"
     /\ Present(failedMigration)
     /\ scriptsRun # <<>>
     /\ ~StatementFailed) =>
        /\ scriptsRun = <<Val(failedMigration).migration_name>>
        /\ R = [success |-> FALSE,
                error |-> IF Val(failedMigration).logs \in {None, Some("")}
                          THEN Some("Migration failed")
                          ELSE Val(failedMigration).logs,
                rolledBack |-> Some(TRUE),
                rollbackError |-> None]

\* C7 witness: a record with empty logs, whose rollback script ran two or
\* more statements without error
C7_Witness ==
    /\ Returned
    /\ cmdState = "ok"
    /\ Present(failedMigration)
    /\ Val(failedMigration).logs = Some("")
    /\ Len(executed) >= 2
    /\ ~StatementFailed

\* the diagnostic of the forward migration, from what the environment answered
OriginalDiagnostic ==
    IF cmdState = "failed"
    THEN IF ExecError.stderr \in {None, Some("")} THEN ExecError.message
         ELSE Val(ExecError.stderr)
    ELSE IF Present(failedMigration)
         THEN IF Val(failedMigration).logs \in {None, Some("")} THEN "Migration failed"
              ELSE Val(Val(failedMigration).logs)
         ELSE DiscoveryError

\* C8: when a statement of a rollback script fails, its message is reported
\* in rollbackError, rolledBack is not true, and error still is the forward
\* migration's own diagnostic.
C8_RollbackFailureKeepsError ==
    (Returned /\ StatementFailed) =>
        /\ R.rollbackError = executed[Len(executed)].error
        /\ R.rolledBack # Some(TRUE)
        /\ R.error = Some(OriginalDiagnostic)

\* C8 witness: the second or a later statement of a script failed after a
\* command failure
C8_Witness ==
    /\ Returned
    /\ StatementFailed
    /\ cmdState = "failed"
    /\ Len(executed) >= 2

\* C9: no rollback script is run and no rollback statement is sent before
\* the external command has returned, and at most one rollback script is run
\* per migrate() call, also when that script fails.
C9_RollbackAfterCommandAtMostOnce ==
    /\ (executed # <<>> \/ scriptsRun # <<>>) => cmdState \in {"ok", "failed"}
    /\ Len(scriptsRun) <= 1
    /\ \A i \in 1..Len(executed) : executed[i].dir = scriptsRun[1]

\* C9 witness: a candidate's script failed while a later candidate with a
\* rollback script was still to visit
C9_Witness ==
    /\ Returned
    /\ path = "command"
    /\ StatementFailed
    /\ \E i \in 1..Len(migrationDirs) : ~NoRollbackFileIn(migrationDirs[i])

\* C10 as stated: once the migrator is constructed, disconnect() has been
\* called exactly once when the process exits.
C10_DisconnectExactlyOnce ==
    (pc = "exited" /\ constructed) => disconnectCalls = 1

----------------------------------------------------------------------------
(* Failure of the discovery of the migrations root *)

\* findMigrationsDir() has thrown in initialize(): the migrator was
\* constructed, initialize() is over and migrationsDir was never assigned
DiscoveryFailed ==
    /\ constructed
    /\ ~Present(migrationsDir)
    /\ pc \notin {"prompt", "confirm", "initialize"}

\* C11: when the migrations root cannot be located the run fails with the
\* discovery failure as its error, the migration command is not invoked, no
\* migration directory is searched for a rollback script and no SQL statement
\* is executed.
C11_DiscoveryFailureNoRollback ==
    DiscoveryFailed =>
        /\ cmdState = "notrun"
        /\ lookups = <<>>
        /\ scriptsRun = <<>>
        /\ executed = <<>>
        /\ Returned => /\ R.success = FALSE
                       /\ R.error = Some(DiscoveryError)
                       /\ R.rolledBack = Some(FALSE)
        /\ pc = "exited" => exitCode = Some(1)

\* a run that ended after a discovery failure, with entries in the file system
\* that the scan would have found under a readable root
C11_Witness ==
    /\ DiscoveryFailed
    /\ Returned
    /\ pc = "exited"
    /\ \E n \in RootEntries : MatchesMigrationPattern(n) /\ ~NoRollbackFileIn(n)

\* migrate() is over: main() is past its call, with or without a result
MigrateOver ==
    /\ constructed
    /\ pc \in {"returned", "disconnect", "catch", "rejected", "exited"}

\* the rollback that migrate() attempted did not succeed (no script, a script
\* that could not be read, a statement that failed)
RollbackDidNotSucceed == Present(rollbackResult) /\ ~Val(rollbackResult).success

\* C12 as stated: failures of the command, of the history query and of the
\* rollback are converted into a result, and a failure of the discovery of the
\* migrations root is the one failure that leaves migrate() as a raised error.
C12_OnlyDiscoveryEscapes ==
    MigrateOver => (Returned <=> ~DiscoveryFailed)

\* C12 (amended): every failure inside migrate(), the failure of the discovery
\* of the migrations root included, is caught and converted into the fields of
\* the result; migrate() always returns a result and never raises.
C12_NothingEscapes ==
    /\ MigrateOver => Returned
    /\ Returned /\ (DiscoveryFailed \/ cmdState = "failed" \/ Present(failedMigration)) =>
           /\ ~R.success
           /\ Present(R.error)
    /\ Returned /\ DiscoveryFailed => R.error = Some(DiscoveryError)
    /\ Returned /\ historyQuery = "threw" => R.success
    /\ Returned /\ RollbackDidNotSucceed =>
           /\ R.rolledBack = Some(FALSE)
           /\ R.rollbackError = Val(rollbackResult).error
           /\ Present(R.rollbackError)

\* migrate() has just returned the result of a failed discovery
C12_Witness ==
    /\ pc = "returned"
    /\ DiscoveryFailed
    /\ R.error = Some(DiscoveryError)
    /\ RollbackDidNotSucceed

----------------------------------------------------------------------------
(* The confirmation prompt of the CLI *)

\* C13: a typed confirmation that does not match the generated string ends
\* the process with code 1 without constructing the migrator, so the
\* migration command is never invoked and no SQL is executed; the migration
\* is only ever started after a matching confirmation.
C13_NoMigrationWithoutConfirmation ==
    /\ pc = "confirm" =>
           /\ Present(prompt)
           /\ confirmed <=> Trim(Val(prompt).answer) = Val(prompt).randomString
    /\ pc # "prompt" /\ ~confirmed =>
           /\ ~constructed
           /\ pc \in {"confirm", "exited"}
           /\ cmdState = "notrun"
           /\ executed = <<>>
           /\ scriptsRun = <<>>
           /\ ~Returned
           /\ disconnectCalls = 0
           /\ pc = "exited" => exitCode = Some(1)
    /\ constructed \/ cmdState # "notrun" \/ executed # <<>> => confirmed

\* the process has exited on an answer that is a proper prefix of the
\* generated string
C13_Witness ==
    /\ pc = "exited"
    /\ ~constructed
    /\ exitCode = Some(1)
    /\ Present(prompt)
    /\ Trim(Val(prompt).answer) # <<>>
    /\ Trim(Val(prompt).answer) # Val(prompt).randomString
    /\ ConfirmsByPrefix(Val(prompt).answer, Val(prompt).randomString)

----------------------------------------------------------------------------
(* The check of the migration history *)

\* C14: checkForFailedMigrations returns absent when no unfinished row exists
\* and when the history query itself fails, and never raises; when the command
\* succeeded and the history query failed, migrate() returns {success: true}
\* and no rollback is attempted.
C14_HistoryQueryFailureIsNoFailure ==
    /\ historyQuery # "notrun" => cmdState = "ok"
    /\ historyQuery = "row" => Present(failedMigration) /\ path = "history"
    /\ historyQuery \in {"threw", "empty"} =>
           /\ ~Present(failedMigration)
           /\ path = "success"
           /\ Returned
           /\ R = SuccessResult
           /\ ~Present(rollbackResult)
           /\ rootRead = "notrun"
           /\ lookups = <<>>
           /\ scriptsRun = <<>>
           /\ executed = <<>>
           /\ pc = "exited" /\ ~inCatch => exitCode = Some(0)

\* the run has ended with exit code 0 after a history query that failed,
\* although a migration directory holds a rollback script
C14_Witness ==
    /\ historyQuery = "threw"
    /\ pc = "exited"
    /\ exitCode = Some(0)
    /\ R.success
    /\ \E n \in RootEntries : ~NoRollbackFileIn(n)

----------------------------------------------------------------------------
(* The rollback of the migration named by the history *)

\* C15: when the command succeeded and the history holds an unfinished record
\* of migration M, only M's directory is consulted for a rollback script: the
\* scan of the recent migrations is not used, and when M's directory has no
\* rollback script no script of another migration is executed.
C15_OnlyTheNamedMigration ==
    path = "history" =>
        LET M == Val(failedMigration).migration_name
        IN  /\ cmdState = "ok"
            /\ rootRead = "notrun"
            /\ migrationDirs = <<>>
            /\ Len(lookups) <= 1
            /\ \A i \in 1..Len(lookups) : lookups[i] = M
            /\ \A i \in 1..Len(scriptsRun) : scriptsRun[i] = M
            /\ \A i \in 1..Len(executed) : executed[i].dir = M
            /\ NoRollbackFileIn(M) =>
                   /\ scriptsRun = <<>>
                   /\ executed = <<>>
                   /\ Returned => R.rolledBack = Some(FALSE)

\* migrate() has returned on the history path: M's directory has no rollback
\* script, the directory of another migration has one
C15_Witness ==
    /\ path = "history"
    /\ Returned
    /\ lookups = <<Val(failedMigration).migration_name>>
    /\ NoRollbackFileIn(Val(failedMigration).migration_name)
    /\ \E n \in RootEntries : MatchesMigrationPattern(n) /\ ~NoRollbackFileIn(n)

----------------------------------------------------------------------------
(* The scan of the recent migrations after a failure of the command *)

\* the conforming migration directories that exist under the migrations root
ConformingEntries == RootEntries \cap ConformingNames

\* their timestamps: MigName(i) is older than MigName(j) exactly when i < j
Timestamps == {i \in 1..MaxDirs : Present(fs[MigName(i)])}

\* the three newest of them: those with fewer than three newer ones
ThreeMostRecent ==
    {MigName(i) : i \in {t \in Timestamps : Cardinality({u \in Timestamps : u > t}) < 3}}

\* the three newest of them, newest first
NewestFirst ==
    LET newest == {t \in Timestamps : Cardinality({u \in Timestamps : u > t}) < 3}
    IN  [k \in 1..Cardinality(newest) |->
            MigName(CHOOSE t \in newest : Cardinality({u \in newest : u > t}) = k - 1)]

\* the directories of the scan in the order of their visit: those already
\* looked up, then those still to visit
Visited == lookups \o migrationDirs

\* C16: after a process-level failure of the command the candidates are the 3
\* most recent conforming migration directories, visited newest first; the
\* script executed is that of the first candidate that has a rollback script,
\* and a rollback script of an older conforming directory is never executed.
C16_ThreeMostRecentNewestFirst ==
    path = "command" /\ rootRead = "ok" =>
        LET expected == NewestFirst
        IN  /\ Visited = expected
            /\ Len(expected) <= 3
            /\ Len(scriptsRun) <= 1
            /\ \A i \in 1..Len(scriptsRun) :
                   \E k \in 1..Len(expected) :
                       /\ scriptsRun[i] = expected[k]
                       /\ ~NoRollbackFileIn(expected[k])
                       /\ \A j \in 1..(k - 1) : NoRollbackFileIn(expected[j])
            /\ \A i \in 1..Len(executed) :
                   \E k \in 1..Len(expected) : executed[i].dir = expected[k]
            /\ Present(rollbackResult) /\ Val(rollbackResult) = ScanMiss =>
                   \A k \in 1..Len(expected) : NoRollbackFileIn(expected[k])

\* four conforming directories exist; the oldest has a rollback script and is
\* not a candidate, the script that ran is that of the second newest, after a
\* miss in the newest
C16_Witness ==
    /\ path = "command"
    /\ rootRead = "ok"
    /\ Cardinality(ConformingEntries) = 4
    /\ ~NoRollbackFileIn(MigName(1))
    /\ MigName(1) \notin ThreeMostRecent
    /\ Len(lookups) = 2
    /\ scriptsRun = <<lookups[2]>>
    /\ Returned

----------------------------------------------------------------------------
(* executeSql over every short script *)

\* the longest script of the enumeration
MaxSqlLen == 4

\* the characters of the enumerated scripts
SqlChars == {" ", "\n", ";", "x"}

\* '   ;  ; DROP TABLE x;'
ExampleSql ==
    <<" ", " ", " ", ";", " ", " ", ";", " ", "D", "R", "O", "P", " ", "T", "A", "B", "L",
      "E", " ", "x", ";">>

\* the scripts handed to executeSql
SqlInputs == UNION {[1..n -> SqlChars] : n \in 0..MaxSqlLen} \cup {ExampleSql}

\* main() and the migrator once the confirmation matched and initialize()
\* found the migrations root
Initialized ==
    /\ confirmed = TRUE
    /\ constructed = TRUE
    /\ migrationsDir = Some(ProjectPrisma)
    /\ prompt = None
    /\ result = None
    /\ reported = "none"
    /\ disconnectCalls = 0
    /\ inCatch = FALSE
    /\ pendingExit = 0
    /\ exitCode = None

\* the command has failed and the scan has found the script of the newest
\* migration; executeSql has split it and is about to run its loop
InitSql ==
    /\ Initialized
    /\ failedInCommand = None
    /\ fs = [n \in Names |-> IF n = MigName(MaxDirs) THEN Some(<<MigrationSql, RollbackSuffix>>)
                             ELSE None]
    /\ \E e \in ExecErrors : cmdError = Some(e) /\ errorOutput = Some(ErrorOutputOf(e))
    /\ cmdState = "failed"
    /\ path = "command"
    /\ historyQuery = "notrun"
    /\ failedMigration = None
    /\ rootRead = "ok"
    /\ migrationDirs = <<>>
    /\ lookups = <<MigName(MaxDirs)>>
    /\ rollbackFile = Some(<<ProjectPrisma, MigName(MaxDirs), RollbackSuffix>>)
    /\ script = Some(MigName(MaxDirs))
    /\ scriptsRun = <<MigName(MaxDirs)>>
    /\ rollbackSql \in {Some(sql) : sql \in SqlInputs}
    /\ statements = SqlStatements(Val(rollbackSql))
    /\ executed = <<>>
    /\ rollbackResult = None
    /\ pc = "execsql"

NextSql ==
    \/ ExecuteStatement
    \/ ExecuteSqlDone

SpecSql == InitSql /\ [][NextSql]_vars

\* the positions of the cuts of split(';'): before the script, at each ';',
\* after the script
Cuts(sql) == {0, Len(sql) + 1} \cup {i \in 1..Len(sql) : sql[i] = ";"}

\* the fragment that starts after cut a
FragmentAfter(sql, a) ==
    LET b == CHOOSE c \in Cuts(sql) : c > a /\ \A d \in Cuts(sql) : d > a => c <= d
    IN  SubSeq(sql, a + 1, b - 1)

\* a fragment without its leading and trailing white space
Stripped(f) ==
    LET ink == {i \in 1..Len(f) : f[i] \notin Whitespace}
    IN  IF ink = {} THEN <<>>
        ELSE SubSeq(f, CHOOSE i \in ink : \A j \in ink : i <= j,
                       CHOOSE i \in ink : \A j \in ink : i >= j)

\* the cuts followed by a fragment that is not blank
StatementStarts(sql) ==
    {a \in Cuts(sql) \ {Len(sql) + 1} : Stripped(FragmentAfter(sql, a)) # <<>>}

\* the statements of a script, in source order
ExpectedStatements(sql) ==
    LET starts == StatementStarts(sql)
    IN  [k \in 1..Cardinality(starts) |->
            Stripped(FragmentAfter(sql,
                CHOOSE a \in starts : Cardinality({b \in starts : b < a}) = k - 1))]

\* C17: executeSql splits the script on ';', trims the fragments and discards
\* the empty ones, and sends the remaining statements one at a time in source
\* order, each only after the one before it has completed; an empty or blank
\* fragment is never sent; of '   ;  ; DROP TABLE x;' one statement is sent.
C17_StatementsInSourceOrder ==
    Present(rollbackSql) =>
        LET expected == ExpectedStatements(Val(rollbackSql))
        IN  /\ Len(executed) <= Len(expected)
            /\ \A i \in 1..Len(executed) :
                   /\ executed[i].statement = expected[i]
                   /\ executed[i].statement # <<>>
                   /\ Stripped(executed[i].statement) = executed[i].statement
                   /\ \A j \in 1..Len(executed[i].statement) :
                          executed[i].statement[j] # ";"
            /\ \A i \in 1..(Len(executed) - 1) : executed[i].ok
            /\ pc = "execsql" =>
                   /\ \A i \in 1..Len(executed) : executed[i].ok
                   /\ statements = SubSeq(expected, Len(executed) + 1, Len(expected))
            /\ Present(rollbackResult) /\ Val(rollbackResult).success =>
                   /\ Len(executed) = Len(expected)
                   /\ \A i \in 1..Len(executed) : executed[i].ok
            /\ Val(rollbackSql) = ExampleSql =>
                   expected = <<<<"D", "R", "O", "P", " ", "T", "A", "B", "L", "E", " ", "x">>>>

\* executeSql has returned after sending the one statement of the example
C17_Witness ==
    /\ rollbackSql = Some(ExampleSql)
    /\ Len(executed) = 1
    /\ executed[1].statement = <<"D", "R", "O", "P", " ", "T", "A", "B", "L", "E", " ", "x">>
    /\ executed[1].ok
    /\ Present(rollbackResult)
    /\ Val(rollbackResult).success

----------------------------------------------------------------------------
(* A rollback script that fails part-way *)

\* the rollback ended on an error of the database
RollbackStatementRaised ==
    /\ Present(rollbackResult)
    /\ ~Val(rollbackResult).success
    /\ \E e \in DbErrors : Val(rollbackResult).error = Some(e)

\* C18: executeSql applies no transaction: when statement k of a rollback
\* script raises, statements 1..k-1 have been executed and stay applied, the
\* statements after k are never sent, and the rollback reports the error of
\* statement k (rolledBack = false, rollbackError = that error).
C18_PartialRollbackStays ==
    RollbackStatementRaised =>
        LET expected == ExpectedStatements(Val(rollbackSql))
            k == Len(executed)
        IN  /\ k >= 1
            /\ k <= Len(expected)
            /\ \A i \in 1..k : executed[i].statement = expected[i]
            /\ \A i \in 1..(k - 1) : executed[i].ok
            /\ ~executed[k].ok
            /\ statements = SubSeq(expected, k, Len(expected))
            /\ Val(rollbackResult).error = executed[k].error
            /\ Returned =>
                   /\ R.rolledBack = Some(FALSE)
                   /\ R.rollbackError = executed[k].error

\* the second of three statements has failed: the first stays applied, the
\* third was never sent, and migrate() has returned
C18_Witness ==
    /\ RollbackStatementRaised
    /\ Len(executed) = 2
    /\ executed[1].ok
    /\ ~executed[2].ok
    /\ Len(statements) = 2
    /\ Returned
    /\ pc = "exited"

----------------------------------------------------------------------------
(* getRollbackFile over every small directory *)

\* the longest directory listing of the enumeration
MaxFiles == 3

\* 'rollback.sql.bak'
RollbackBak == RollbackSuffix \o <<".", "b", "a", "k">>

\* the entries a migration directory may hold
FileNames == {MigrationSql, RollbackSuffix, PrefixedRollbackSql, RollbackBak}

\* the listings readdir may yield: distinct entries in any order
DirListings ==
    {l \in UNION {[1..n -> FileNames] : n \in 0..MaxFiles} :
        \A i, j \in 1..Len(l) : i # j => l[i] # l[j]}

\* the command has succeeded and the history names an unfinished migration;
\* its directory is missing (or unreadable) or holds one of the listings
InitLocate ==
    /\ Initialized
    /\ failedInCommand = None
    /\ \E row \in HistoryRows, d \in {None} \cup {Some(l) : l \in DirListings} :
          /\ failedMigration = Some(row)
          /\ fs = [n \in Names |-> IF n = row.migration_name THEN d ELSE None]
    /\ cmdState = "ok"
    /\ cmdError = None
    /\ errorOutput = None
    /\ path = "history"
    /\ historyQuery = "row"
    /\ rootRead = "notrun"
    /\ migrationDirs = <<>>
    /\ lookups = <<>>
    /\ rollbackFile = None
    /\ script = None
    /\ scriptsRun = <<>>
    /\ rollbackSql = None
    /\ statements = <<>>
    /\ executed = <<>>
    /\ rollbackResult = None
    /\ pc = "target"

NextLocate == AttemptRollback

SpecLocate == InitLocate /\ [][NextLocate]_vars

\* the names that end with 'rollback.sql'
RollbackNames == {RollbackSuffix, PrefixedRollbackSql}

\* C19: getRollbackFile returns the path of the first entry, in the order of
\* the listing, of migrationsDir/migrationName whose name ends with
\* 'rollback.sql' ('001.rollback.sql' and 'rollback.sql' match, 'migration.sql'
\* and 'rollback.sql.bak' do not); it returns absent when no entry matches and
\* when the directory is missing or unreadable, and it never raises.
C19_FirstRollbackEntry ==
    /\ \A f \in FileNames : EndsWith(f, RollbackSuffix) <=> f \in RollbackNames
    /\ lookups # <<>> /\ path = "history" =>
           LET M == Val(failedMigration).migration_name
               listing == fs[M]
               hits == IF Present(listing)
                       THEN {i \in 1..Len(Val(listing)) : Val(listing)[i] \in RollbackNames}
                       ELSE {}
           IN  /\ lookups = <<M>>
               /\ hits = {} =>
                      /\ rollbackFile = None
                      /\ rollbackResult = Some(RollbackMiss)
                      /\ scriptsRun = <<>>
               /\ hits # {} =>
                      /\ Present(rollbackFile)
                      /\ \E i \in hits :
                            /\ \A j \in hits : i <= j
                            /\ Val(rollbackFile) = <<Val(migrationsDir), M, Val(listing)[i]>>

\* the directory lists 'migration.sql', 'rollback.sql.bak' and
\* '001.rollback.sql' in this order, and the path of the third was returned
C19_Witness ==
    /\ lookups = <<MigName(1)>>
    /\ fs[MigName(1)] = Some(<<MigrationSql, RollbackBak, PrefixedRollbackSql>>)
    /\ rollbackFile = Some(<<Val(migrationsDir), MigName(1), PrefixedRollbackSql>>)

----------------------------------------------------------------------------
(* findRecentMigrationDirs over roots with entries that nearly conform *)

\* '20240105_e': eight digits and the separator
EightDigits == <<"2", "0", "2", "4", "0", "1", "0", "5", "_", "e">>

\* '2024010600000_f': thirteen digits and the separator
ThirteenDigits ==
    <<"2", "0", "2", "4", "0", "1", "0", "6", "0", "0", "0", "0", "0", "_", "f">>

\* '202401070000000_g': fifteen digits and the separator
FifteenDigits ==
    <<"2", "0", "2", "4", "0", "1", "0", "7", "0", "0", "0", "0", "0", "0", "0", "_", "g">>

\* '20240108000000h': fourteen digits and no separator
NoSeparator ==
    <<"2", "0", "2", "4", "0", "1", "0", "8", "0", "0", "0", "0", "0", "0", "h">>

NearMisses == {EightDigits, ThirteenDigits, FifteenDigits, NoSeparator}

\* the names the migrations root may hold
ScanNames == Names \cup NearMisses

\* the command has failed and attemptRollbackFromError is about to list the
\* migrations root; no directory holds a rollback script
InitScan ==
    /\ Initialized
    /\ failedInCommand = None
    /\ fs \in [ScanNames -> {None, Some(<<MigrationSql>>)}]
    /\ \E e \in ExecErrors : cmdError = Some(e) /\ errorOutput = Some(ErrorOutputOf(e))
    /\ cmdState = "failed"
    /\ path = "command"
    /\ historyQuery = "notrun"
    /\ failedMigration = None
    /\ rootRead = "notrun"
    /\ migrationDirs = <<>>
    /\ lookups = <<>>
    /\ rollbackFile = None
    /\ script = None
    /\ scriptsRun = <<>>
    /\ rollbackSql = None
    /\ statements = <<>>
    /\ executed = <<>>
    /\ rollbackResult = None
    /\ pc = "scan"

NextScan ==
    \/ FindRecentMigrationDirs
    \/ ScanStep

SpecScan == InitScan /\ [][NextScan]_vars

\* the entries of the root that start with a run of digits and a separator
LooselyConforming == {n \in RootEntries : MatchesLeadingDigits(n)}

\* C20 as stated: the scan returns the entries of the root that start with a
\* run of digits followed by a separator, sorted descending and truncated to
\* the limit, and the empty sequence on a read failure.
C20_LeadingDigitRunConvention ==
    /\ rootRead = "threw" => Visited = <<>>
    /\ rootRead = "ok" =>
           LET taken == {n \in LooselyConforming :
                            Cardinality({m \in LooselyConforming : StrLess(n, m)}) < RecentLimit}
               visited == Visited
           IN  /\ {visited[i] : i \in 1..Len(visited)} = taken
               /\ \A i \in 1..(Len(visited) - 1) : StrLess(visited[i + 1], visited[i])

\* C20 (amended): the scan returns the entries of the root whose name starts
\* with exactly fourteen digits followed by '_', sorted descending and
\* truncated to the first three; 'readme' and names with a shorter or longer
\* run of digits are excluded; the result is empty on a read failure; for
\* 20240101000000_a, 20240102000000_b and readme it is
\* [20240102000000_b, 20240101000000_a].
C20_FourteenDigitsNewestThree ==
    /\ rootRead = "threw" => Visited = <<>>
    /\ rootRead = "ok" =>
           LET recent == ThreeMostRecent
               visited == Visited
           IN  /\ Len(visited) = Cardinality(recent)
               /\ Len(visited) <= 3
               /\ {visited[i] : i \in 1..Len(visited)} = recent
               /\ \A i \in 1..Len(visited) : visited[i] \notin NearMisses \cup {Readme}
               /\ \A i \in 1..(Len(visited) - 1) : StrLess(visited[i + 1], visited[i])
               /\ RootEntries = {MigName(1), MigName(2), Readme} =>
                      visited = <<MigName(2), MigName(1)>>

\* the root holds 20240101000000_a, 20240102000000_b, readme and 20240105_e,
\* and the scan has returned the first two, newest first
C20_Witness ==
    /\ rootRead = "ok"
    /\ pc = "scanloop"
    /\ RootEntries = {MigName(1), MigName(2), Readme, EightDigits}
    /\ migrationDirs = <<MigName(2), MigName(1)>>
    /\ lookups = <<>>

----------------------------------------------------------------------------
(* The command fails on a known migration *)

\* the external command is running and is about to fail on one of the
\* conforming migrations of the migrations root
InitCommand ==
    /\ Initialized
    /\ fs \in FileSystems
    /\ failedInCommand \in {Some(n) : n \in ConformingEntries}
    /\ cmdState = "running"
    /\ cmdError = None
    /\ errorOutput = None
    /\ path = "none"
    /\ historyQuery = "notrun"
    /\ failedMigration = None
    /\ rootRead = "notrun"
    /\ migrationDirs = <<>>
    /\ lookups = <<>>
    /\ rollbackFile = None
    /\ script = None
    /\ scriptsRun = <<>>
    /\ rollbackSql = None
    /\ statements = <<>>
    /\ executed = <<>>
    /\ rollbackResult = None
    /\ pc = "execwait"

NextCommand ==
    \/ CommandFails
    \/ FindRecentMigrationDirs
    \/ ScanStep
    \/ ExecuteStatement
    \/ ExecuteSqlDone
    \/ ReturnFailure

SpecCommand == InitCommand /\ [][NextCommand]_vars

\* the candidates that hold a rollback script, newest first
CandidatesWithScript == SelectSeq(NewestFirst, LAMBDA d : ~NoRollbackFileIn(d))

\* C21: after a process-level failure of the command the rollback target is
\* chosen without reference to the migration that failed: the script that runs
\* is that of the newest candidate that has one, whichever migration failed, a
\* failed migration without a script does not stop the search, and a script of
\* another migration that runs to its end is reported as rolledBack = true.
C21_TargetIgnoresFailedMigration ==
    path = "command" /\ rootRead = "ok" /\ Present(failedInCommand) =>
        LET failed == Val(failedInCommand)
            withScript == CandidatesWithScript
        IN  /\ \A i \in 1..Len(scriptsRun) :
                   /\ withScript # <<>>
                   /\ scriptsRun[i] = withScript[1]
            /\ pc = "returned" /\ withScript # <<>> =>
                   /\ lookups # <<>>
                   /\ lookups[Len(lookups)] = withScript[1]
                   /\ Val(rollbackResult) # ScanMiss
            /\ pc = "returned" /\ Val(rollbackResult) = RollbackSuccess =>
                   /\ scriptsRun = <<withScript[1]>>
                   /\ R.success = FALSE
                   /\ R.rolledBack = Some(TRUE)
                   /\ R.rollbackError = None

\* the command failed on the newest migration, whose directory has no rollback
\* script; the script of an older migration ran to its end and the result
\* reports rolledBack = true
C21_Witness ==
    /\ path = "command"
    /\ Present(failedInCommand)
    /\ NoRollbackFileIn(Val(failedInCommand))
    /\ Len(scriptsRun) = 1
    /\ scriptsRun[1] # Val(failedInCommand)
    /\ StrLess(scriptsRun[1], Val(failedInCommand))
    /\ executed # <<>>
    /\ \A i \in 1..Len(executed) : executed[i].ok /\ executed[i].dir = scriptsRun[1]
    /\ Returned
    /\ R.rolledBack = Some(TRUE)

----------------------------------------------------------------------------
(* Rollback SQL and the success of the run *)

\* C22: rollback SQL is executed only in failing runs: a migrate() call whose
\* result has success = true has sent no statement of any rollback script,
\* and a call in which a rollback statement was sent has a result with
\* success = false.
C22_RollbackOnlyInFailingRuns ==
    /\ Returned /\ R.success =>
           /\ executed = <<>>
           /\ scriptsRun = <<>>
           /\ lookups = <<>>
           /\ ~Present(rollbackResult)
    /\ Returned /\ (executed # <<>> \/ scriptsRun # <<>>) =>
           /\ ~R.success
           /\ Present(R.error)
           /\ Present(R.rolledBack)
    /\ executed # <<>> => (path \in {"command", "history"} /\ Present(script))

\* migrate() has returned success = false after every statement of a rollback
\* script of the history path was sent and succeeded
C22_Witness ==
    /\ Returned
    /\ ~R.success
    /\ path = "history"
    /\ cmdState = "ok"
    /\ Len(executed) >= 2
    /\ \A i \in 1..Len(executed) : executed[i].ok
    /\ R.rolledBack = Some(TRUE)

====
